---- MODULE Spec2Model ----
(***************************************************************************)
(* hex-palette (assets/js/app.js): the colour arithmetic, the palette      *)
(* derivation, the mood presets and the event handlers of the page,        *)
(* as a state machine.                                                     *)
(*                                                                         *)
(* Text that the code inspects character by character (hex values, entry   *)
(* names, CSS property names) is a sequence of one-character strings.      *)
(* Numbers the code keeps as IEEE doubles are kept as exact fractions      *)
(* num/den of integers; see MathRound for what that means at a half.       *)
(***************************************************************************)
EXTENDS Integers, Sequences, FiniteSets, TLC

(***************************************************************************)
(* Strings                                                                 *)
(***************************************************************************)
HexDigits == <<"0","1","2","3","4","5","6","7","8","9","a","b","c","d","e","f">>

LowerHexChars == {HexDigits[i] : i \in 1..16}

\* String.prototype.toLowerCase, one character
LowerChar(c) ==
  CASE c = "A" -> "a" [] c = "B" -> "b" [] c = "C" -> "c" [] c = "D" -> "d"
    [] c = "E" -> "e" [] c = "F" -> "f" [] c = "L" -> "l" [] c = "N" -> "n"
    [] c = "P" -> "p" [] c = "S" -> "s" [] c = "Z" -> "z"
    [] OTHER -> c

toLowerCase(str) == [i \in 1..Len(str) |-> LowerChar(str[i])]

\* /^#[0-9a-f]{6}$/.test(str)
HexPattern(str) ==
  /\ Len(str) = 7
  /\ str[1] = "#"
  /\ \A i \in 2..7 : str[i] \in LowerHexChars

\* value of one hexadecimal digit, as parseInt(.., 16) reads it
DigitValues == [c \in LowerHexChars |-> CHOOSE v \in 0..15 : HexDigits[v + 1] = c]
DigitValue(c) == DigitValues[LowerChar(c)]

\* parseInt(digits, 16) for a string of hexadecimal digits: the value of its
\* first n digits
RECURSIVE parseDigits(_, _)
parseDigits(digits, n) ==
  IF n = 0 THEN 0 ELSE 16 * parseDigits(digits, n - 1) + DigitValue(digits[n])

parseInt16(digits) == parseDigits(digits, Len(digits))

\* Number.prototype.toString(16) of a non-negative integer
RECURSIVE toString16(_)
toString16(v) ==
  IF v < 16 THEN <<HexDigits[v + 1]>>
  ELSE Append(toString16(v \div 16), HexDigits[(v % 16) + 1])

\* String.prototype.padStart(width, fill) with a one-character fill
RECURSIVE padStart(_, _, _)
padStart(str, width, fill) ==
  IF Len(str) >= width THEN str ELSE padStart(<<fill>> \o str, width, fill)

\* String.prototype.replace(from, to) with one-character strings: first match only
RECURSIVE replaceFirst(_, _, _)
replaceFirst(str, from, to) ==
  IF Len(str) = 0 THEN str
  ELSE IF Head(str) = from THEN <<to>> \o Tail(str)
  ELSE <<Head(str)>> \o replaceFirst(Tail(str), from, to)

(***************************************************************************)
(* Numbers                                                                 *)
(***************************************************************************)
Max2(a, b) == IF a >= b THEN a ELSE b
Min2(a, b) == IF a <= b THEN a ELSE b

\* Math.round(num / den), den > 0.  Math.round takes a half upwards.  The
\* code computes num/den in doubles, so a quotient that is exactly k + 1/2
\* reaches Math.round as a double within a few ulps of the half, on either
\* side of it: hslToHex(0, 75, 60) computes 255 * 0.9 as 229.49999999999997
\* and yields e5, where the exact 229.5 would yield e6.  At an exact half
\* both neighbours are therefore possible results; everywhere else the
\* result is the one the exact quotient gives.
MathRound(num, den) ==
  LET q == (2 * num + den) \div (2 * den)
  IN  IF (2 * num + den) % (2 * den) = 0 THEN {q - 1, q} ELSE {q}

\* clamp(value, min, max)
clamp(value, min, max) == Min2(Max2(value, min), max)

\* A value of Math.random() is a fraction u = <<num, den>> in [0, 1).
\* randomInRange(min, max) when its Math.random() call returned u
randomInRange(min, max, u) == ((u[1] * (max - min + 1)) \div u[2]) + min

\* Math.random() > 0.5 when the call returned u
MoreThanHalf(u) == 2 * u[1] > u[2]

(***************************************************************************)
(* Colour utilities                                                        *)
(***************************************************************************)
\* hexToRgb(hex): parseInt(hex.slice(1), 16), then the three bytes
hexToRgb(hex) ==
  LET bigint == parseInt16(SubSeq(hex, 2, Len(hex)))
  IN  [r |-> (bigint \div 65536) % 256, g |-> (bigint \div 256) % 256, b |-> bigint % 256]

\* Math.round(255 * color).toString(16).padStart(2, '0'), for every byte
ByteHex == [v \in 0..255 |-> padStart(toString16(v), 2, "0")]

\* hslToHex(h, s, l): the set of strings the doubles can produce (one string
\* unless a channel falls on an exact half).  With l and a over 100 and k
\* over 30: color = l/100 - (s * min(l, 100 - l) / 10000) * (t / 30).
hslToHexChannel(n, h, s, l) ==
  LET k == (30 * n + h) % 360
      t == Max2(Min2(Min2(k - 90, 270 - k), 30), -30)
      a == s * Min2(l, 100 - l)
  IN  {ByteHex[v] : v \in MathRound(255 * (3000 * l - a * t), 300000)}

hslToHex(h, s, l) ==
  {<<"#">> \o f0 \o f8 \o f4 :
      f0 \in hslToHexChannel(0, h, s, l),
      f8 \in hslToHexChannel(8, h, s, l),
      f4 \in hslToHexChannel(4, h, s, l)}

\* the saturation without its branch for l > 0.5
saturationLowerHalf(max, min) == MathRound(100 * (max - min), max + min)

\* Math.round(s * 100) with s = l > 0.5 ? d / (2 - max - min) : d / (max + min),
\* max and min over 255 (at max + min = 255 the two quotients are equal)
saturation(max, min) ==
  IF max + min > 255 THEN MathRound(100 * (max - min), 510 - max - min)
                     ELSE MathRound(100 * (max - min), max + min)

\* Math.round(l * 100) with l = (max + min) / 2, max and min over 255
lightness(max, min) == MathRound(100 * (max + min), 510)

\* hexToHsl(hex): the set of triples the doubles can produce
hexToHsl(hex) ==
  LET rgb == hexToRgb(hex)
      max == Max2(rgb.r, Max2(rgb.g, rgb.b))
      min == Min2(rgb.r, Min2(rgb.g, rgb.b))
      d   == max - min
      \* six times the hue fraction, over d
      h6  == IF max = rgb.r THEN (rgb.g - rgb.b) + (IF rgb.g < rgb.b THEN 6 * d ELSE 0)
             ELSE IF max = rgb.g THEN (rgb.b - rgb.r) + 2 * d
             ELSE (rgb.r - rgb.g) + 4 * d
      ls  == lightness(max, min)
  IN  IF max = min
      THEN {[h |-> 0, s |-> 0, l |-> l] : l \in ls}
      ELSE {[h |-> h, s |-> s, l |-> l] :
               h \in MathRound(60 * h6, d),
               s \in saturation(max, min),
               l \in ls}

(***************************************************************************)
(* Mood presets                                                            *)
(***************************************************************************)
DEFAULT_MOOD == "calm"

moodPalettes ==
  [calm  |-> [label |-> "Calm Drift",  emoji |-> "wavy-dash",
              primary   |-> <<"#","5","4","6","8","f","f">>,
              secondary |-> <<"#","b","f","e","0","f","f">>],
   noir  |-> [label |-> "Night Grid",  emoji |-> "black-square",
              primary   |-> <<"#","0","b","1","1","1","6">>,
              secondary |-> <<"#","f","5","e","d","d","c">>],
   bloom |-> [label |-> "Bloom Pop",   emoji |-> "flower",
              primary   |-> <<"#","f","2","5","4","7","d">>,
              secondary |-> <<"#","f","f","d","9","e","8">>],
   solar |-> [label |-> "Solar Flash", emoji |-> "high-voltage",
              primary   |-> <<"#","f","f","6","b","0","0">>,
              secondary |-> <<"#","f","f","e","4","a","0">>],
   fresh |-> [label |-> "Fresh Cut",   emoji |-> "eight-spoked-asterisk",
              primary   |-> <<"#","1","f","b","f","8","f">>,
              secondary |-> <<"#","d","9","f","f","e","5">>]]

MoodKeys == DOMAIN moodPalettes

\* moodPalettes is an object literal, so a property read and the `in`
\* operator also find what Object.prototype provides.
ObjectPrototypeKeys == {"constructor", "toString", "valueOf", "hasOwnProperty"}

\* an undefined value, as a text input, a template literal show it
Undefined == <<"u","n","d","e","f","i","n","e","d">>

\* a member of Object.prototype read as a preset: truthy, every field undefined
PrototypeMember ==
  [label |-> "undefined", emoji |-> "undefined", primary |-> Undefined, secondary |-> Undefined]

\* moodKey in moodPalettes
InMoodPalettes(moodKey) == moodKey \in MoodKeys \cup ObjectPrototypeKeys

\* moodPalettes[moodKey] || moodPalettes[DEFAULT_MOOD]
moodOrDefault(moodKey) ==
  IF moodKey \in MoodKeys THEN moodPalettes[moodKey]
  ELSE IF moodKey \in ObjectPrototypeKeys THEN PrototypeMember
  ELSE moodPalettes[DEFAULT_MOOD]

(***************************************************************************)
(* Variant generation and palette derivation                               *)
(***************************************************************************)
\* the lightness shift drawn from 2..20 and -20..-2
variantShiftsSmall(k1, k2, k3, k4) ==
  LET lightShift == IF MoreThanHalf(k1) THEN randomInRange(2, 20, k2)
                                        ELSE randomInRange(-20, -2, k2)
      saturationShift == IF MoreThanHalf(k3) THEN randomInRange(-8, 8, k4)
                         ELSE randomInRange(6, 14, k4) * (IF lightShift > 0 THEN -1 ELSE 1)
  IN  [light |-> lightShift, saturation |-> saturationShift]

\* generateVariantFromHex(hex) when the four Math.random() calls it makes
\* returned k1 .. k4, in call order
variantShifts(k1, k2, k3, k4) ==
  LET lightShift == IF MoreThanHalf(k1) THEN randomInRange(12, 20, k2)
                                        ELSE randomInRange(-20, -12, k2)
      saturationShift == IF MoreThanHalf(k3) THEN randomInRange(-8, 8, k4)
                         ELSE randomInRange(6, 14, k4) * (IF lightShift > 0 THEN -1 ELSE 1)
  IN  [light |-> lightShift, saturation |-> saturationShift]

\* the (base, newSaturation, newLightness) triples of generateVariantFromHex
variantHsl(hex, k1, k2, k3, k4) ==
  LET sh == variantShifts(k1, k2, k3, k4)
  IN  {[h |-> base.h, l0 |-> base.l,
        s |-> clamp(base.s + sh.saturation, 10, 95),
        l |-> clamp(base.l + sh.light, 5, 95)] : base \in hexToHsl(hex)}

generateVariantFromHex(hex, k1, k2, k3, k4) ==
  UNION {hslToHex(v.h, v.s, v.l) : v \in variantHsl(hex, k1, k2, k3, k4)}

NamePrimary    == <<"P","r","i","m","a","r","y">>
NamePrimaryL   == <<"P","r","i","m","a","r","y","-","L">>
NamePrimaryD   == <<"P","r","i","m","a","r","y","-","D">>
NameSecondary  == <<"S","e","c","o","n","d","a","r","y">>
NameSecondaryL == <<"S","e","c","o","n","d","a","r","y","-","L">>
NameSecondaryD == <<"S","e","c","o","n","d","a","r","y","-","D">>
NameNeutral    == <<"N","e","u","t","r","a","l">>

\* Math.round(x / 2) of an integer x: the half is exact in a double
RoundHalfOf(x) == (x + 1) \div 2

\* the darker variant without its floor of 10
darkerLNoFloor(l) == IF l - 20 >= 0 THEN l - 20 ELSE 0

\* lightness of the lighter and of the darker variant
lighterL(l) == Min2(100, l + 15)
darkerL(l) == Max2(10, l - 20)

\* a palette that also returns secondaryDarker
generatePaletteWithSecondaryD(primaryHex, secondaryHex) ==
  LET entries(p, s) ==
        {<<[name |-> NamePrimary,    hex |-> primaryHex,       desc |-> "Base Color"],
           [name |-> NamePrimaryL,   hex |-> primaryLighter,   desc |-> "Light Tint"],
           [name |-> NamePrimaryD,   hex |-> primaryDarker,    desc |-> "Dark Shade"],
           [name |-> NameSecondary,  hex |-> secondaryHex,     desc |-> "Accent Color"],
           [name |-> NameSecondaryL, hex |-> secondaryLighter, desc |-> "Light Accent Tint"],
           [name |-> NameSecondaryD, hex |-> secondaryDarker,  desc |-> "Dark Accent Shade"],
           [name |-> NameNeutral,    hex |-> neutral,          desc |-> "Background/Base"]>> :
              primaryLighter   \in hslToHex(p.h, p.s, Min2(100, p.l + 15)),
              primaryDarker    \in hslToHex(p.h, p.s, Max2(10, p.l - 20)),
              secondaryLighter \in hslToHex(s.h, s.s, Min2(100, s.l + 15)),
              secondaryDarker  \in hslToHex(s.h, s.s, Max2(10, s.l - 20)),
              neutral          \in hslToHex(((p.h + s.h + 1) \div 2) % 360, 5, 95)}
  IN  UNION {entries(p, s) : p \in hexToHsl(primaryHex), s \in hexToHsl(secondaryHex)}

\* generatePalette(primaryHex, secondaryHex): the palettes the doubles can
\* produce.  secondaryDarker is computed and not returned.
generatePalette(primaryHex, secondaryHex) ==
  LET entries(p, s) ==
        {<<[name |-> NamePrimary,    hex |-> primaryHex,       desc |-> "Base Color"],
           [name |-> NamePrimaryL,   hex |-> primaryLighter,   desc |-> "Light Tint"],
           [name |-> NamePrimaryD,   hex |-> primaryDarker,    desc |-> "Dark Shade"],
           [name |-> NameSecondary,  hex |-> secondaryHex,     desc |-> "Accent Color"],
           [name |-> NameSecondaryL, hex |-> secondaryLighter, desc |-> "Light Accent Tint"],
           [name |-> NameNeutral,    hex |-> neutral,          desc |-> "Background/Base"]>> :
              primaryLighter   \in hslToHex(p.h, p.s, lighterL(p.l)),
              primaryDarker    \in hslToHex(p.h, p.s, darkerL(p.l)),
              secondaryLighter \in hslToHex(s.h, s.s, lighterL(s.l)),
              neutral          \in hslToHex(RoundHalfOf(p.h + s.h) % 360, 5, 95)}
  IN  UNION {entries(p, s) : p \in hexToHsl(primaryHex), s \in hexToHsl(secondaryHex)}

(***************************************************************************)
(* The page                                                                *)
(***************************************************************************)
VARIABLES
  primaryHexInput,    \* primaryHexInput.value
  secondaryHexInput,  \* secondaryHexInput.value
  primaryColorInput,  \* primaryColorInput.value
  secondaryColorInput,\* secondaryColorInput.value
  currentMood,        \* let currentMood
  moodIndicator,      \* moodIndicator.textContent
  ariaPressed,        \* the mood buttons whose aria-pressed is 'true'
  paletteDisplay,     \* paletteDisplay.innerHTML: the swatch cells, in order
  contrastResult,     \* contrastResult.textContent
  cssData,            \* copyCssBtn.dataset.css
  toastText,          \* toast.textContent
  toastVisible,       \* toast has opacity-100 (TRUE) or opacity-0 (FALSE)
  timers,             \* pending setTimeout callbacks: ms left, oldest first
  sinceShown,         \* ms since the last showToast, capped at DismissDelay
  clipboardAvailable, \* navigator.clipboard && navigator.clipboard.writeText
  pendingWrites,      \* number of unsettled navigator.clipboard.writeText promises
  randomClicks,       \* randomize clicks so far
  call                \* a direct call of one function and what it returned

vars == <<primaryHexInput, secondaryHexInput, primaryColorInput, secondaryColorInput,
          currentMood, moodIndicator, ariaPressed, paletteDisplay, contrastResult,
          cssData, toastText, toastVisible, timers, sinceShown, clipboardAvailable,
          pendingWrites, randomClicks, call>>

inputVars == <<primaryHexInput, secondaryHexInput, primaryColorInput, secondaryColorInput>>
moodVars  == <<currentMood, moodIndicator, ariaPressed>>
uiVars    == <<paletteDisplay, contrastResult, cssData>>
toastVars == <<toastText, toastVisible, timers, sinceShown>>
clipVars  == <<clipboardAvailable, pendingWrites>>

\* setTimeout(.., 3000) in showToast
DismissDelay == 3000

\* bounds of the model
TickMs        == 1500   \* how far one step of the clock advances
MaxTimers     == 2      \* pending dismiss timers
MaxPending    == 1      \* unsettled clipboard writes
MaxRandomize  == 1      \* randomize clicks in one run
RandomDen     == 18     \* Math.random() in a direct call is one of k / RandomDen

\* the values of Math.random() in a click (each of its four calls returns the
\* same one), in a direct call
UiDraws  == {<<1, 4>>, <<3, 4>>}
AllDraws == {<<k, RandomDen>> : k \in 0..(RandomDen - 1)}

Black == <<"#","0","0","0","0","0","0">>
White == <<"#","f","f","f","f","f","f">>

\* the data-mood attributes of the mood buttons, the data-randomize
\* attributes of the randomize buttons
MoodButtons      == MoodKeys \cup {""}
RandomizeButtons == {"primary", "secondary"}

\* what the colour picker can report, what can be typed into a hex field
PickerValues == {White}
TypedTexts   == {<<"#","F","F","0","0","0","1">>, <<"#","z","z","z","z","z","z">>}

\* assigning to the value of an <input type="color">: a valid simple colour
\* is kept in lowercase, anything else becomes #000000
ColorValue(v) == IF HexPattern(toLowerCase(v)) THEN toLowerCase(v) ELSE Black

NoCss == <<>>
Waiting == [text |-> "Waiting for valid hex.", fg |-> <<>>, bg |-> <<>>]

\* hexToHsl(p.hex).l < 50, by the l of hexToHsl alone.  The lightness is
\* never at a half (200 * (max + min) + 510 is not a multiple of 1020).
isDark(hex) ==
  LET rgb == hexToRgb(hex)
      max == Max2(rgb.r, Max2(rgb.g, rgb.b))
      min == Min2(rgb.r, Min2(rgb.g, rgb.b))
  IN  \A l \in lightness(max, min) : l < 50

swatch(p) ==
  [name |-> p.name, hex |-> p.hex, desc |-> p.desc,
   textColor |-> IF isDark(p.hex) THEN White ELSE Black]

\* `--color-${p.name.toLowerCase().replace('-', '_')}` for the names an entry
\* can have
cssProperty ==
  [name \in {NamePrimary, NamePrimaryL, NamePrimaryD, NameSecondary, NameSecondaryL,
             NameSecondaryD, NameNeutral} |->
     <<"-","-","c","o","l","o","r","-">> \o replaceFirst(toLowerCase(name), "-", "_")]

\* one line of cssVariables: `  --color-${name}: ${hex};`
cssLine(p) == [property |-> cssProperty[p.name], value |-> p.hex]

\* ':root {\n' + the lines + '}'
cssVariables(palette) == [i \in 1..Len(palette) |-> cssLine(palette[i])]

\* palette.find(p => p.name === name).hex
findHex(palette, name) ==
  palette[CHOOSE i \in 1..Len(palette) :
            palette[i].name = name /\ \A j \in 1..(i - 1) : palette[j].name # name].hex

\* updateUI() with pv, sv in the two hex inputs and css in dataset.css:
\* the values of (paletteDisplay, contrastResult, cssData) it can leave.
\* The ratio of the contrast line is getContrastRatio(fg, bg), kept by its
\* arguments.
updateUI(pv, sv, css) ==
  LET primaryHex   == toLowerCase(pv)
      secondaryHex == toLowerCase(sv)
  IN  IF ~HexPattern(primaryHex) \/ ~HexPattern(secondaryHex)
      THEN {[contrastResult |-> Waiting, paletteDisplay |-> <<>>, cssData |-> css]}
      ELSE {[contrastResult |-> [text |-> "Ratio", fg |-> findHex(palette, NamePrimary),
                                 bg |-> findHex(palette, NameNeutral)],
             paletteDisplay |-> [i \in 1..Len(palette) |-> swatch(palette[i])],
             cssData        |-> cssVariables(palette)] :
               palette \in generatePalette(primaryHex, secondaryHex)}

SetUi(ui) ==
  /\ paletteDisplay' = ui.paletteDisplay
  /\ contrastResult' = ui.contrastResult
  /\ cssData' = ui.cssData

\* syncColorInputs that leaves the colour pickers alone
syncColorInputsHexOnly(type, hex) ==
  IF type = "primary"
  THEN /\ primaryHexInput' = hex
       /\ UNCHANGED <<primaryColorInput, secondaryHexInput, secondaryColorInput>>
  ELSE /\ secondaryHexInput' = hex
       /\ UNCHANGED <<secondaryColorInput, primaryHexInput, primaryColorInput>>

\* syncColorInputs(type, hex)
syncColorInputs(type, hex) ==
  IF type = "primary"
  THEN /\ primaryHexInput' = hex
       /\ primaryColorInput' = ColorValue(hex)
       /\ UNCHANGED <<secondaryHexInput, secondaryColorInput>>
  ELSE /\ secondaryHexInput' = hex
       /\ secondaryColorInput' = ColorValue(hex)
       /\ UNCHANGED <<primaryHexInput, primaryColorInput>>

\* showToast that clears the pending dismiss before it schedules its own
showToastCancelling(message) ==
  /\ toastText' = message
  /\ toastVisible' = TRUE
  /\ timers' = <<DismissDelay>>
  /\ sinceShown' = 0

\* showToast(message)
showToast(message) ==
  /\ toastText' = message
  /\ toastVisible' = TRUE
  /\ timers' = Append(timers, DismissDelay)
  /\ sinceShown' = 0

\* setActiveMoodButton(activeKey)
setActiveMoodButton(activeKey) == {b \in MoodButtons : b = activeKey}

\* applyMood(moodKey, announce)
applyMood(moodKey, announce) ==
  LET mood == moodOrDefault(moodKey)
      key  == IF InMoodPalettes(moodKey) THEN moodKey ELSE DEFAULT_MOOD
  IN  /\ currentMood' = key
      /\ primaryHexInput' = mood.primary
      /\ primaryColorInput' = ColorValue(mood.primary)
      /\ secondaryHexInput' = mood.secondary
      /\ secondaryColorInput' = ColorValue(mood.secondary)
      /\ \E ui \in updateUI(mood.primary, mood.secondary, cssData) : SetUi(ui)
      /\ ariaPressed' = setActiveMoodButton(key)
      /\ moodIndicator' = <<mood.emoji, " ", mood.label>>
      /\ IF announce THEN showToast(<<mood.label, " mood applied">>)
                     ELSE UNCHANGED toastVars

\* The state once the script has run: applyMood(DEFAULT_MOOD, false) on the
\* freshly loaded page
PageInit ==
  LET mood == moodOrDefault(DEFAULT_MOOD)
  IN  /\ currentMood = DEFAULT_MOOD
      /\ primaryHexInput = mood.primary
      /\ primaryColorInput = ColorValue(mood.primary)
      /\ secondaryHexInput = mood.secondary
      /\ secondaryColorInput = ColorValue(mood.secondary)
      /\ \E ui \in updateUI(mood.primary, mood.secondary, NoCss) :
            /\ paletteDisplay = ui.paletteDisplay
            /\ contrastResult = ui.contrastResult
            /\ cssData = ui.cssData
      /\ ariaPressed = setActiveMoodButton(DEFAULT_MOOD)
      /\ moodIndicator = <<mood.emoji, " ", mood.label>>
      /\ toastText = <<>>
      /\ toastVisible = FALSE
      /\ timers = <<>>
      /\ sinceShown = DismissDelay
      /\ clipboardAvailable \in BOOLEAN
      /\ pendingWrites = 0
      /\ randomClicks = 0

\* no function is being called directly
NoCall == [fn |-> "none", arg |-> <<>>, arg2 |-> <<>>, ret |-> <<>>]

Init == PageInit /\ call = NoCall

\* 'input' on a colour picker
ColorPickerInput(type, value) ==
  /\ IF type = "primary"
     THEN /\ primaryColorInput' = value
          /\ primaryHexInput' = value
          /\ UNCHANGED <<secondaryHexInput, secondaryColorInput>>
     ELSE /\ secondaryColorInput' = value
          /\ secondaryHexInput' = value
          /\ UNCHANGED <<primaryHexInput, primaryColorInput>>
  /\ \E ui \in updateUI(primaryHexInput', secondaryHexInput', cssData) : SetUi(ui)
  /\ UNCHANGED <<moodVars, toastVars, clipVars, randomClicks, call>>

\* 'input' on a hex text field: the field now holds text
HexTextInput(type, text) ==
  /\ IF type = "primary"
     THEN /\ primaryHexInput' = text
          /\ UNCHANGED <<secondaryHexInput, secondaryColorInput>>
          /\ IF HexPattern(toLowerCase(text))
             THEN primaryColorInput' = ColorValue(text)
             ELSE UNCHANGED primaryColorInput
     ELSE /\ secondaryHexInput' = text
          /\ UNCHANGED <<primaryHexInput, primaryColorInput>>
          /\ IF HexPattern(toLowerCase(text))
             THEN secondaryColorInput' = ColorValue(text)
             ELSE UNCHANGED secondaryColorInput
  /\ IF HexPattern(toLowerCase(text))
     THEN \E ui \in updateUI(primaryHexInput', secondaryHexInput', cssData) : SetUi(ui)
     ELSE UNCHANGED uiVars
  /\ UNCHANGED <<moodVars, toastVars, clipVars, randomClicks, call>>

\* click on a randomize button
RandomizeClick(target, k1, k2, k3, k4) ==
  LET referenceHex == IF target = "primary" THEN secondaryHexInput ELSE primaryHexInput
      validRef     == HexPattern(toLowerCase(referenceHex))
      paletteFallback == moodOrDefault(currentMood)
      fallbackHex  == IF target = "primary" THEN paletteFallback.primary
                                            ELSE paletteFallback.secondary
      nextHexes    == IF validRef
                      THEN generateVariantFromHex(toLowerCase(referenceHex), k1, k2, k3, k4)
                      ELSE {fallbackHex}
  IN  /\ randomClicks < MaxRandomize
      /\ Len(timers) < MaxTimers
      /\ \E nextHex \in nextHexes : syncColorInputs(target, nextHex)
      /\ \E ui \in updateUI(primaryHexInput', secondaryHexInput', cssData) : SetUi(ui)
      /\ showToast(<<"Linked ", target, " hue">>)
      /\ randomClicks' = randomClicks + 1
      /\ UNCHANGED <<moodVars, clipVars, call>>

\* click on a mood button
MoodClick(button) ==
  /\ Len(timers) < MaxTimers
  /\ applyMood(IF button = "" THEN DEFAULT_MOOD ELSE button, TRUE)
  /\ UNCHANGED <<clipVars, randomClicks, call>>

\* click on the copy button
CopyClick ==
  /\ IF cssData # NoCss /\ clipboardAvailable
     THEN /\ pendingWrites < MaxPending
          /\ pendingWrites' = pendingWrites + 1
          /\ UNCHANGED toastVars
     ELSE /\ Len(timers) < MaxTimers
          /\ showToast(<<"Clipboard unavailable.">>)
          /\ UNCHANGED pendingWrites
  /\ UNCHANGED <<inputVars, moodVars, uiVars, clipboardAvailable, randomClicks, call>>

\* navigator.clipboard.writeText(css) settles: .then or .catch
ClipboardSettle(fulfilled) ==
  /\ pendingWrites > 0
  /\ Len(timers) < MaxTimers
  /\ pendingWrites' = pendingWrites - 1
  /\ IF fulfilled
     THEN showToast(<<"CSS variables copied to clipboard!">>)
     ELSE showToast(<<"Failed to copy.">>)
  /\ UNCHANGED <<inputVars, moodVars, uiVars, clipboardAvailable, randomClicks, call>>

\* the oldest dismiss timer is due: its callback hides the toast
TimerFire ==
  /\ timers # <<>>
  /\ Head(timers) = 0
  /\ timers' = Tail(timers)
  /\ toastVisible' = FALSE
  /\ UNCHANGED <<toastText, sinceShown>>
  /\ UNCHANGED <<inputVars, moodVars, uiVars, clipVars, randomClicks, call>>

\* time passes, up to the next due timer
Tick ==
  LET step == IF timers = <<>> THEN TickMs ELSE Min2(TickMs, Head(timers))
  IN  /\ IF timers = <<>> THEN sinceShown < DismissDelay ELSE Head(timers) > 0
      /\ timers' = [i \in 1..Len(timers) |-> timers[i] - step]
      /\ sinceShown' = Min2(DismissDelay, sinceShown + step)
      /\ UNCHANGED <<toastText, toastVisible>>
      /\ UNCHANGED <<inputVars, moodVars, uiVars, clipVars, randomClicks, call>>

\* The page within one burst of events: no dismiss timer comes due
NextPage ==
  \/ \E type \in RandomizeButtons, value \in PickerValues : ColorPickerInput(type, value)
  \/ \E type \in RandomizeButtons, text \in TypedTexts : HexTextInput(type, text)
  \/ \E target \in RandomizeButtons, u \in UiDraws : RandomizeClick(target, u, u, u, u)
  \/ \E button \in MoodButtons : MoodClick(button)

InitPage == Init /\ clipboardAvailable = TRUE

SpecPage == InitPage /\ [][NextPage]_vars

\* The toast and its timers as time passes, under the mood and copy buttons
NextToast ==
  \/ \E button \in MoodButtons : MoodClick(button)
  \/ CopyClick
  \/ \E fulfilled \in BOOLEAN : ClipboardSettle(fulfilled)
  \/ TimerFire
  \/ Tick

SpecToast == Init /\ [][NextToast]_vars

(***************************************************************************)
(* applyMood called with any string                                        *)
(***************************************************************************)
MoodArguments == MoodKeys \cup {"", "not-a-real-key", "constructor", "toString"}

ApplyMoodCall(moodKey, announce) ==
  /\ Len(timers) < MaxTimers
  /\ applyMood(moodKey, announce)
  /\ call' = [fn |-> "applyMood", arg |-> moodKey, arg2 |-> announce, ret |-> <<>>]
  /\ UNCHANGED <<clipVars, randomClicks>>

NextMood ==
  \/ \E moodKey \in MoodArguments, announce \in BOOLEAN : ApplyMoodCall(moodKey, announce)
  \/ TimerFire
  \/ Tick

SpecMood == Init /\ [][NextMood]_vars

(***************************************************************************)
(* The colour functions called directly                                    *)
(***************************************************************************)
\* the bytes the arguments are made of
ColourBytes  == {0, 2, 128, 228, 230, 255}
VariantBytes == {0, 43, 212, 255}

HexOf(r, g, b) == <<"#">> \o ByteHex[r] \o ByteHex[g] \o ByteHex[b]

Colours     == {HexOf(r, g, b) : r \in ColourBytes, g \in ColourBytes, b \in ColourBytes}
                 \cup {moodPalettes[key].primary : key \in MoodKeys}
Colours2    == {moodPalettes.calm.secondary, moodPalettes.noir.primary, moodPalettes.noir.secondary}
VariantRefs == {HexOf(r, g, b) : r \in VariantBytes, g \in VariantBytes, b \in VariantBytes}

\* a draw that only decides `Math.random() > 0.5`: one value on each side
BranchDraws == {<<0, RandomDen>>, <<RandomDen - 1, RandomDen>>}

InitColor ==
  /\ PageInit
  /\ clipboardAvailable = TRUE
  /\ \E hex \in Colours, hex2 \in Colours2 :
        call = [fn |-> "none", arg |-> hex, arg2 |-> hex2, ret |-> <<>>]

Returns(fn, ret) ==
  /\ call' = [call EXCEPT !.fn = fn, !.ret = ret]
  /\ UNCHANGED <<inputVars, moodVars, uiVars, toastVars, clipVars, randomClicks>>

\* The direct calls are made with arguments on which no Math.round meets an
\* exact half, where the fraction alone decides what the call returns
NoHalf(outcomes) == Cardinality(outcomes) = 1

\* hexToHsl(arg)
CallHexToHsl ==
  /\ call.fn = "none"
  /\ NoHalf(hexToHsl(call.arg))
  /\ \E c \in hexToHsl(call.arg) : Returns("hexToHsl", c)

\* {h, s, l} = hexToHsl(arg); hslToHex(h, s, l)
CallRoundTrip ==
  /\ call.fn = "none"
  /\ NoHalf(hexToHsl(call.arg))
  /\ \A c \in hexToHsl(call.arg) : NoHalf(hslToHex(c.h, c.s, c.l))
  /\ \E c \in hexToHsl(call.arg) : \E hex \in hslToHex(c.h, c.s, c.l) :
        Returns("roundTrip", hex)

\* generatePalette(arg, arg2)
CallGeneratePalette ==
  /\ call.fn = "none"
  /\ NoHalf(generatePalette(call.arg, call.arg2))
  /\ \E palette \in generatePalette(call.arg, call.arg2) :
        Returns("generatePalette", palette)

NextColor == CallHexToHsl \/ CallRoundTrip \/ CallGeneratePalette

SpecColor == InitColor /\ [][NextColor]_vars

InitVariant ==
  /\ PageInit
  /\ clipboardAvailable = TRUE
  /\ \E hex \in VariantRefs :
        call = [fn |-> "none", arg |-> hex, arg2 |-> <<>>, ret |-> <<>>]

\* generateVariantFromHex(arg): what it returns, with the triple it encoded
CallGenerateVariant ==
  /\ call.fn = "none"
  /\ \E k1 \in BranchDraws, k2 \in AllDraws, k3 \in BranchDraws, k4 \in AllDraws :
       /\ NoHalf(generateVariantFromHex(call.arg, k1, k2, k3, k4))
       /\ \E v \in variantHsl(call.arg, k1, k2, k3, k4) : \E hex \in hslToHex(v.h, v.s, v.l) :
             Returns("generateVariantFromHex", [hex |-> hex, hsl |-> v])

NextVariant == CallGenerateVariant

SpecVariant == InitVariant /\ [][NextVariant]_vars

(***************************************************************************)
(* Properties                                                              *)
(***************************************************************************)
Abs(x) == IF x >= 0 THEN x ELSE -x

\* the largest difference between two colours in one byte
ByteDiff(hexA, hexB) ==
  LET a == hexToRgb(hexA)
      b == hexToRgb(hexB)
  IN  Max2(Abs(a.r - b.r), Max2(Abs(a.g - b.g), Abs(a.b - b.b)))

PaletteNames ==
  <<NamePrimary, NamePrimaryL, NamePrimaryD, NameSecondary, NameSecondaryL, NameNeutral>>

\* C1: generatePalette(P, S) returns exactly six entries named Primary,
\* Primary-L, Primary-D, Secondary, Secondary-L, Neutral in this order, none
\* named Secondary-D, every hex a #rrggbb string, the Primary entry's hex P
\* and the Secondary entry's hex S.
C1_PaletteShape ==
  call.fn = "generatePalette" =>
    /\ Len(call.ret) = 6
    /\ \A i \in 1..6 :
          /\ call.ret[i].name = PaletteNames[i]
          /\ call.ret[i].name # NameSecondaryD
          /\ HexPattern(call.ret[i].hex)
    /\ call.ret[1].hex = call.arg
    /\ call.ret[4].hex = call.arg2

C1_Witness ==
  /\ call.fn = "generatePalette"
  /\ call.arg # call.arg2
  /\ call.ret[1].hex = HexOf(2, 228, 230)
  /\ call.ret[4].hex = moodPalettes.noir.primary

\* C2 as claimed: whenever the primary or the secondary hex input holds a
\* value that does not match #[0-9a-f]{6} once lowercased, the palette
\* display has no entries and the contrast line reads 'Waiting for valid hex.'
C2_InvalidClearsDisplay ==
  (~HexPattern(toLowerCase(primaryHexInput)) \/ ~HexPattern(toLowerCase(secondaryHexInput)))
    => (paletteDisplay = <<>> /\ contrastResult = Waiting)

\* C3 as claimed: after applyMood(key), currentMood is one of the five keys;
\* it is key and the base colours are that preset's when key is one of the
\* five, and it is 'calm' with #5468ff and #bfe0ff for any other string.
C3_MoodResolves ==
  call.fn = "applyMood" =>
    /\ currentMood \in {"calm", "noir", "bloom", "solar", "fresh"}
    /\ IF call.arg \in {"calm", "noir", "bloom", "solar", "fresh"}
       THEN /\ currentMood = call.arg
            /\ primaryHexInput = moodPalettes[call.arg].primary
            /\ secondaryHexInput = moodPalettes[call.arg].secondary
       ELSE /\ currentMood = "calm"
            /\ primaryHexInput = <<"#","5","4","6","8","f","f">>
            /\ secondaryHexInput = <<"#","b","f","e","0","f","f">>

\* C4 as claimed: the colour generateVariantFromHex returns has, decoded, a
\* saturation in [10,95] and a lightness in [5,95], and its lightness
\* differs from the reference's by at least 12.
C4_VariantAsClaimed ==
  call.fn = "generateVariantFromHex" =>
    \A d \in hexToHsl(call.ret.hex) : \A ref \in hexToHsl(call.arg) :
       /\ d.s \in 10..95
       /\ d.l \in 5..95
       /\ Abs(d.l - ref.l) >= 12

\* C4, amended: generateVariantFromHex returns a #rrggbb string that encodes
\* a saturation in [10,95] and a lightness in [5,95]; decoded from the
\* string, the lightness is in [5,95] and the saturation in [9,96]; and the
\* lightness differs from the reference's by at least 12 whenever the
\* reference's lightness is in [17,83].
C4_VariantBounds ==
  call.fn = "generateVariantFromHex" =>
    LET v == call.ret.hsl
    IN  /\ HexPattern(call.ret.hex)
        /\ v.s \in 10..95
        /\ v.l \in 5..95
        /\ \A d \in hexToHsl(call.ret.hex) : d.l \in 5..95 /\ d.s \in 9..96
        /\ \A ref \in hexToHsl(call.arg) :
              ref.l \in 17..83 =>
                 \A d \in hexToHsl(call.ret.hex) : Abs(d.l - ref.l) >= 12

C4_Witness ==
  /\ call.fn = "generateVariantFromHex"
  /\ call.ret.hsl.l0 = 17
  /\ call.ret.hsl.l = 5
  /\ call.ret.hsl.s = 10

\* C5 as claimed: hslToHex(hexToHsl(H)) differs from H by at most 1 in each
\* of the red, green and blue bytes.
C5_RoundTripWithin1 ==
  call.fn = "roundTrip" => ByteDiff(call.ret, call.arg) <= 1

\* C5, amended: hslToHex(hexToHsl(H)) is a #rrggbb string that differs from
\* H by at most 5 in each of the red, green and blue bytes.
C5_RoundTripWithin5 ==
  call.fn = "roundTrip" => (HexPattern(call.ret) /\ ByteDiff(call.ret, call.arg) <= 5)

C5_Witness ==
  /\ call.fn = "roundTrip"
  /\ call.arg = HexOf(2, 228, 230)
  /\ ByteDiff(call.ret, call.arg) = 5

\* C6 as claimed: hexToHsl returns a hue in [0,360), 360 excluded, a
\* saturation in [0,100] and a lightness in [0,100].
C6_HslRanges ==
  call.fn = "hexToHsl" =>
    (call.ret.h \in 0..359 /\ call.ret.s \in 0..100 /\ call.ret.l \in 0..100)

\* C7 as claimed: the Primary-L, Primary-D and Secondary-L entries of
\* generatePalette are never #ffffff and never #000000.
C7_NeverWhiteOrBlack ==
  call.fn = "generatePalette" =>
    \A i \in {2, 3, 5} : call.ret[i].hex \notin {White, Black}

\* C7, amended: the Primary-L, Primary-D and Secondary-L entries are never
\* #000000 and Primary-D is never #ffffff; Primary-L (Secondary-L) is
\* #ffffff exactly when the lightness of the primary (secondary) base is 85
\* or more, where min(100, L+15) is 100.
C7_WhiteOnlyWhenCapped ==
  call.fn = "generatePalette" =>
    /\ \A i \in {2, 3, 5} : call.ret[i].hex # Black
    /\ call.ret[3].hex # White
    /\ (call.ret[2].hex = White) = (\A c \in hexToHsl(call.arg) : c.l >= 85)
    /\ (call.ret[5].hex = White) = (\A c \in hexToHsl(call.arg2) : c.l >= 85)

C7_Witness ==
  /\ call.fn = "generatePalette"
  /\ call.arg = moodPalettes.noir.primary
  /\ call.arg2 = moodPalettes.calm.secondary
  /\ call.ret[2].hex = HexOf(36, 55, 71)
  /\ call.ret[3].hex = HexOf(17, 26, 34)
  /\ call.ret[5].hex = White

\* C8: a step that shows the toast makes it visible and appends its own
\* dismiss timer of 3000 ms, leaving every pending timer in place; a timer
\* leaves only by coming due and hiding the toast; nothing else changes
\* the toast.  So the dismiss of an older toast still runs after a newer one
\* was shown, and the newer message can be hidden before its 3000 ms are up.
C8_ToastTimers ==
  [][/\ Len(timers') > Len(timers) =>
          (toastVisible' /\ sinceShown' = 0 /\ timers' = Append(timers, DismissDelay))
     /\ Len(timers') < Len(timers) =>
          (Head(timers) = 0 /\ timers' = Tail(timers) /\ ~toastVisible'
             /\ toastText' = toastText)
     /\ Len(timers') = Len(timers) =>
          (/\ toastVisible' = toastVisible
           /\ toastText' = toastText
           /\ \A i \in 1..Len(timers) :
                 timers'[i] <= timers[i] /\ timers[i] - timers'[i] = sinceShown' - sinceShown)
    ]_vars

\* the newer of two messages is hidden, its own timer still pending
C8_Witness ==
  /\ ~toastVisible
  /\ toastText = <<"Failed to copy.">>
  /\ sinceShown > 0
  /\ sinceShown < DismissDelay
  /\ timers = <<DismissDelay - sinceShown>>

\* C9: a randomize click for side T writes one new #rrggbb value to both
\* inputs of side T, a variant of the opposite side's lowercased value, or
\* the current mood preset's colour for T when that value is not a valid hex;
\* the opposite side's inputs and currentMood stay as they were.
C9_RandomizeFrame ==
  [][randomClicks' # randomClicks =>
       LET target == toastText'[2]
           primary == target = "primary"
           referenceHex == IF primary THEN secondaryHexInput ELSE primaryHexInput
           newHex   == IF primary THEN primaryHexInput' ELSE secondaryHexInput'
           newColor == IF primary THEN primaryColorInput' ELSE secondaryColorInput'
       IN  /\ toastText' = <<"Linked ", target, " hue">>
           /\ target \in {"primary", "secondary"}
           /\ HexPattern(newHex)
           /\ newColor = newHex
           /\ IF primary
              THEN UNCHANGED <<secondaryHexInput, secondaryColorInput>>
              ELSE UNCHANGED <<primaryHexInput, primaryColorInput>>
           /\ currentMood' = currentMood
           /\ IF HexPattern(toLowerCase(referenceHex))
              THEN \E u \in UiDraws :
                      newHex \in generateVariantFromHex(toLowerCase(referenceHex), u, u, u, u)
              ELSE newHex = IF primary THEN moodPalettes[currentMood].primary
                                       ELSE moodPalettes[currentMood].secondary
    ]_vars

\* after a click for the primary side under the noir mood, the secondary
\* field not holding a hex
C9_Witness ==
  /\ randomClicks = 1
  /\ toastText = <<"Linked ", "primary", " hue">>
  /\ currentMood = "noir"
  /\ ~HexPattern(toLowerCase(secondaryHexInput))
  /\ primaryHexInput = moodPalettes.noir.primary
  /\ primaryColorInput = moodPalettes.noir.primary
  /\ paletteDisplay = <<>>

\* C10 as claimed: the CSS text stored for the copy button is the :root
\* block of the palette derived from the current primary and secondary hex
\* input values, and is not an earlier pair's while they hold no two hexes.
C10_CssIsCurrent ==
  LET primaryHex   == toLowerCase(primaryHexInput)
      secondaryHex == toLowerCase(secondaryHexInput)
  IN  IF HexPattern(primaryHex) /\ HexPattern(secondaryHex)
      THEN cssData \in {cssVariables(palette) : palette \in generatePalette(primaryHex, secondaryHex)}
      ELSE cssData = NoCss
====
